---- MODULE Spec2Model ----
(***************************************************************************)
(* A model of nap's logical database (db.go): one primary and N replicas   *)
(* behind a single handle.  Writes and transactions go to slot 0, reads to *)
(* a replica chosen round-robin by an atomic counter, administrative       *)
(* operations fan out to every slot concurrently.                          *)
(*                                                                         *)
(* Slots are numbered from 0 as in the Go code; Pdbs, stmts and the        *)
(* per-slot records are functions over 0..n-1.  Only conns, the result of  *)
(* strings.Split, is a TLA+ sequence: conns[i] of the code is conns[i+1].  *)
(***************************************************************************)
EXTENDS Integers, Sequences, FiniteSets, TLC

VARIABLES
    dataSourceNames, \* Open's argument
    db,      \* what Open returned: "none" (not called), "ok" (*DB) or "failed" (nil)
    conns,   \* Open's local: the segments of dataSourceNames
    Pdbs,    \* DB.Pdbs: slot -> physical handle
    count,   \* DB.count: the selection counter
    closed,  \* the slots whose physical handle has been closed
    stmts,   \* Prepare's local: slot -> per-slot statement
    stmt,    \* the caller's aggregated statement (what Prepare returned)
    hits,    \* test double: slot -> number of times replica() selected it
    readers, \* the concurrent callers of replica: where each one is and what it got
    cur      \* test double: the operation in progress or last completed

vars == <<dataSourceNames, db, conns, Pdbs, count, closed, stmts, stmt, hits, readers, cur>>

----------------------------------------------------------------------------
(* Bounds of the model *)

\* longest dataSourceNames string handed to Open
MaxDsnLen == 3
\* width of the selection counter in the model (uint64 in the code)
CounterBits == 2
\* number of replica selections recorded by the test double
MaxReads == 4

\* the number of concurrent callers of replica
NumCallers == 3

Chars == {"a", ";"}
Sep == ";"

RECURSIVE Pow2(_)
Pow2(k) == IF k = 0 THEN 1 ELSE 2 * Pow2(k - 1)

Modulus == Pow2(CounterBits)

RECURSIVE StringsUpTo(_)
StringsUpTo(k) ==
    IF k = 0 THEN {<<>>}
    ELSE LET shorter == StringsUpTo(k - 1)
         IN  shorter \cup {Append(s, c) : s \in {t \in shorter : Len(t) = k - 1}, c \in Chars}

DataSourceNames == StringsUpTo(MaxDsnLen)

----------------------------------------------------------------------------
(* Values *)

Slots(n) == 0 .. (n - 1)

NoErr == [kind |-> "nil"]
Failure(call, i) == [kind |-> "err", call |-> call, slot |-> i]

NilDB == [kind |-> "nil"]
Handle(dsn) == [kind |-> "db", dsn |-> dsn]

NilStmt == [kind |-> "nil"]
PerSlotStmt(i) == [kind |-> "stmt", on |-> i, closed |-> FALSE]

NilAggregate == [kind |-> "nil"]
Aggregate(ss) == [kind |-> "stmt", stmts |-> ss]

Empty == [i \in {} |-> 0]

\* len(db.Pdbs)
NumSlots == Cardinality(DOMAIN Pdbs)

WriteOps == {"Exec", "ExecContext", "Begin", "BeginTx"}
QueryOps == {"Query", "QueryContext", "QueryRow", "QueryRowContext"}
ReplicaOps == {"Replica", "Slave"}
PrimaryOps == {"Primary", "Master"}
PingOps == {"Ping", "PingContext"}
PrepareOps == {"Prepare", "PrepareContext"}
StmtExecOps == {"Stmt.Exec", "Stmt.ExecContext"}
StmtQueryOps == {"Stmt.Query", "Stmt.QueryContext", "Stmt.QueryRow", "Stmt.QueryRowContext"}

----------------------------------------------------------------------------
(* strings.Split(dataSourceNames, ";") *)

\* index of the first separator of s, 0 when there is none
RECURSIVE IndexFrom(_, _)
IndexFrom(s, k) ==
    IF k > Len(s) THEN 0
    ELSE IF s[k] = Sep THEN k
    ELSE IndexFrom(s, k + 1)

RECURSIVE Split(_)
Split(s) ==
    LET m == IndexFrom(s, 1)
    IN  IF m = 0 THEN <<s>>
        ELSE <<SubSeq(s, 1, m - 1)>> \o Split(SubSeq(s, m + 1, Len(s)))

----------------------------------------------------------------------------
(* scatter: the joined result of a fan-out *)

\* the non-nil entries of errs, in slot order
RECURSIVE CausesFrom(_, _, _)
CausesFrom(errs, i, n) ==
    IF i >= n THEN <<>>
    ELSE IF errs[i] = NoErr THEN CausesFrom(errs, i + 1, n)
    ELSE <<errs[i]>> \o CausesFrom(errs, i + 1, n)

Causes(errs) == CausesFrom(errs, 0, Cardinality(DOMAIN errs))

scatter(errs) ==
    LET c == Causes(errs)
    IN  IF Len(c) = 0 THEN NoErr
        ELSE IF Len(c) = 1 THEN c[1]
        ELSE [kind |-> "multi", causes |-> c]

----------------------------------------------------------------------------
(* The operation record kept by the test double *)

Idle == [op |-> "none", running |-> FALSE, calls |-> Empty, errs |-> Empty,
         err |-> NoErr, idx |-> -1]

\* a fan-out over n slots has been dispatched and no unit has run yet
Dispatched(op, n) ==
    [op |-> op, running |-> TRUE, calls |-> [i \in Slots(n) |-> 0],
     errs |-> [i \in Slots(n) |-> NoErr], err |-> NoErr, idx |-> -1]

\* unit i of the running fan-out has made its call, with outcome e
UnitDone(i, e) ==
    [cur EXCEPT !.calls[i] = @ + 1, !.errs[i] = e]

PendingUntilFailure ==
    IF \E i \in DOMAIN cur.errs : cur.errs[i] # NoErr THEN {}
    ELSE {i \in DOMAIN cur.calls : cur.calls[i] = 0}

\* the units of the running fan-out that have not made their call yet: the
\* fan-out joins when there is none left
Pending == {i \in DOMAIN cur.calls : cur.calls[i] = 0}

\* one call on slot i, with outcome e, and nothing else
Single(op, n, i, e) ==
    [op |-> op, running |-> FALSE,
     calls |-> [j \in Slots(n) |-> IF j = i THEN 1 ELSE 0],
     errs |-> [j \in Slots(n) |-> IF j = i THEN e ELSE NoErr],
     err |-> e, idx |-> i]

\* an accessor: slot i is handed out, no underlying call
Accessed(op, n, i) ==
    [op |-> op, running |-> FALSE, calls |-> [j \in Slots(n) |-> 0],
     errs |-> [j \in Slots(n) |-> NoErr], err |-> NoErr, idx |-> i]

\* the index i is out of range of the slice: the operation panics
Panic == [kind |-> "panic"]
Panicked(op, n, i) ==
    [op |-> op, running |-> FALSE, calls |-> [j \in Slots(n) |-> 0],
     errs |-> [j \in Slots(n) |-> NoErr], err |-> Panic, idx |-> i]

\* the concurrent callers
Callers == 1 .. NumCallers

\* no concurrent caller
NoReaders == [start |-> 0, pc |-> Empty, got |-> Empty, idx |-> Empty]

\* every caller has called replica and none has taken a step; c is db.count
ReadersCalled(c) ==
    [start |-> c,
     pc |-> [p \in Callers |-> "called"],
     got |-> [p \in Callers |-> -1],
     idx |-> [p \in Callers |-> -1]]

\* no call is in progress on the logical database
Ready == db = "ok" /\ ~cur.running

\* the caller may use the database: Close ends the lifetime of the instance,
\* and a caller that has called Close makes no further call
Live == Ready /\ cur.op # "Close"

----------------------------------------------------------------------------
Init ==
    /\ dataSourceNames = <<>>
    /\ db = "none"
    /\ conns = <<>>
    /\ Pdbs = Empty
    /\ count = 0
    /\ closed = {}
    /\ stmts = Empty
    /\ stmt = NilAggregate
    /\ hits = Empty
    /\ readers = NoReaders
    /\ cur = Idle

----------------------------------------------------------------------------
(* Open: split the names, open every target concurrently, all or nothing *)

\* the target unit i opens
OpenTarget(i) == conns[i + 1]

OpenResultIgnoringErr(err) == "ok"

\* what Open returns for the joined error err
OpenResult(err) == IF err # NoErr THEN "failed" ELSE "ok"

OpenCall(names) ==
    /\ db = "none"
    /\ ~cur.running
    /\ dataSourceNames' = names
    /\ conns' = Split(names)
    /\ Pdbs' = [i \in Slots(Len(conns')) |-> NilDB]
    /\ hits' = [i \in Slots(Len(conns')) |-> 0]
    /\ cur' = Dispatched("Open", Len(conns'))
    /\ UNCHANGED <<readers, db, count, closed, stmts, stmt>>

OpenUnit(i, ok) ==
    /\ cur.op = "Open"
    /\ cur.running
    /\ i \in Pending
    /\ Pdbs' = [Pdbs EXCEPT ![i] = IF ok THEN Handle(OpenTarget(i)) ELSE NilDB]
    /\ cur' = UnitDone(i, IF ok THEN NoErr ELSE Failure("Open", i))
    /\ UNCHANGED <<readers, dataSourceNames, db, conns, count, closed, stmts, stmt, hits>>

OpenReturn ==
    /\ cur.op = "Open"
    /\ cur.running
    /\ Pending = {}
    /\ cur' = [cur EXCEPT !.running = FALSE, !.err = scatter(cur.errs)]
    /\ db' = OpenResult(cur'.err)
    /\ UNCHANGED <<readers, dataSourceNames, conns, Pdbs, count, closed, stmts, stmt, hits>>

----------------------------------------------------------------------------
(* Close, Ping, PingContext: fan out to every slot *)

FanOutLastErr(errs) ==
    LET c == Causes(errs)
    IN  IF Len(c) = 0 THEN NoErr ELSE c[Len(c)]

\* what a fan-out method returns for the per-slot outcomes errs
FanOutResult(errs) == scatter(errs)

CloseCall ==
    /\ Live
    /\ cur' = Dispatched("Close", NumSlots)
    /\ UNCHANGED <<readers, dataSourceNames, db, conns, Pdbs, count, closed, stmts, stmt, hits>>

CloseUnitNilling(i, ok) ==
    /\ cur.op = "Close"
    /\ cur.running
    /\ i \in Pending
    /\ closed' = IF ok THEN closed \cup {i} ELSE closed
    /\ Pdbs' = IF ok THEN [Pdbs EXCEPT ![i] = NilDB] ELSE Pdbs
    /\ cur' = UnitDone(i, IF ok THEN NoErr ELSE Failure("Close", i))
    /\ UNCHANGED <<readers, dataSourceNames, db, conns, count, stmts, stmt, hits>>

\* unit i of Close: db.Pdbs[i].Close()
CloseUnit(i, ok) ==
    /\ cur.op = "Close"
    /\ cur.running
    /\ i \in Pending
    /\ closed' = IF ok THEN closed \cup {i} ELSE closed
    /\ cur' = UnitDone(i, IF ok THEN NoErr ELSE Failure("Close", i))
    /\ UNCHANGED <<readers, dataSourceNames, db, conns, Pdbs, count, stmts, stmt, hits>>

PingCall(op) ==
    /\ Live
    /\ cur' = Dispatched(op, NumSlots)
    /\ UNCHANGED <<readers, dataSourceNames, db, conns, Pdbs, count, closed, stmts, stmt, hits>>

PingUnit(i, ok) ==
    /\ cur.op \in PingOps
    /\ cur.running
    /\ i \in Pending
    /\ cur' = UnitDone(i, IF ok THEN NoErr ELSE Failure(cur.op, i))
    /\ UNCHANGED <<readers, dataSourceNames, db, conns, Pdbs, count, closed, stmts, stmt, hits>>

FanOutReturn ==
    /\ cur.op \in PingOps \cup {"Close"}
    /\ cur.running
    /\ Pending = {}
    /\ cur' = [cur EXCEPT !.running = FALSE, !.err = FanOutResult(cur.errs)]
    /\ UNCHANGED <<readers, dataSourceNames, db, conns, Pdbs, count, closed, stmts, stmt, hits>>

----------------------------------------------------------------------------
(* Driver, Begin, BeginTx, Exec, ExecContext, Primary, Master: slot 0 *)

LastSlot == NumSlots - 1

\* the slot of the primary
PrimarySlot == 0

Driver ==
    /\ Live
    /\ cur' = Single("Driver", NumSlots, PrimarySlot, NoErr)
    /\ UNCHANGED <<readers, dataSourceNames, db, conns, Pdbs, count, closed, stmts, stmt, hits>>

ExecAdvancingCount(op, ok) ==
    /\ Live
    /\ cur' = Single(op, NumSlots, PrimarySlot,
                     IF ok THEN NoErr ELSE Failure(op, PrimarySlot))
    /\ count' = (count + 1) % Modulus
    /\ UNCHANGED <<readers, dataSourceNames, db, conns, Pdbs, closed, stmts, stmt, hits>>

\* Begin, BeginTx, Exec, ExecContext
Exec(op, ok) ==
    /\ Live
    /\ cur' = Single(op, NumSlots, PrimarySlot,
                     IF ok THEN NoErr ELSE Failure(op, PrimarySlot))
    /\ UNCHANGED <<readers, dataSourceNames, db, conns, Pdbs, count, closed, stmts, stmt, hits>>

\* Primary, Master
Primary(op) ==
    /\ Live
    /\ cur' = Accessed(op, NumSlots, PrimarySlot)
    /\ UNCHANGED <<readers, dataSourceNames, db, conns, Pdbs, count, closed, stmts, stmt, hits>>

----------------------------------------------------------------------------
(* replica: the round-robin selector *)

\* atomic.AddUint64(&db.count, 1)
AddUint64(c, delta) == (c + delta) % Modulus

replicaCountStuck(c, n) == c

replicaCountReset(c, n) == IF n <= 1 THEN c ELSE 0

replicaCountAlways(c, n) == AddUint64(c, 1)

\* db.count after replica(n)
replicaCount(c, n) == IF n <= 1 THEN c ELSE AddUint64(c, 1)

replicaOverAll(c, n) == IF n <= 1 THEN 0 ELSE AddUint64(c, 1) % n

replicaOverN(c, n) == 1 + (AddUint64(c, 1) % n)

replicaPreIncrement(c, n) == IF n <= 1 THEN 0 ELSE 1 + (c % (n - 1))

replicaFirstOnly(c, n) == IF n <= 1 THEN 0 ELSE 1

\* the index replica(n) returns when db.count is c
replica(c, n) == IF n <= 1 THEN 0 ELSE 1 + (AddUint64(c, 1) % (n - 1))

RECURSIVE SumUpTo(_, _)
SumUpTo(f, n) == IF n = 0 THEN 0 ELSE f[n - 1] + SumUpTo(f, n - 1)

\* the selections recorded so far
Reads == SumUpTo(hits, NumSlots)

\* the test double records that index i was selected
Record(i) ==
    hits' = IF i \in DOMAIN hits THEN [hits EXCEPT ![i] = @ + 1] ELSE hits

\* Replica, Slave: db.Pdbs[db.replica(len(db.Pdbs))]
Replica(op) ==
    /\ Live
    /\ Reads < MaxReads
    /\ LET i == replica(count, NumSlots)
       IN  /\ count' = replicaCount(count, NumSlots)
           /\ Record(i)
           /\ cur' = IF i \in DOMAIN Pdbs THEN Accessed(op, NumSlots, i)
                     ELSE Panicked(op, NumSlots, i)
    /\ UNCHANGED <<readers, dataSourceNames, db, conns, Pdbs, closed, stmts, stmt>>

QueryWithFallback(op, ok) ==
    /\ Live
    /\ Reads < MaxReads
    /\ LET i == replica(count, NumSlots)
       IN  /\ count' = replicaCount(count, NumSlots)
           /\ Record(i)
           /\ cur' = IF ok \/ i = PrimarySlot
                     THEN Single(op, NumSlots, i, NoErr)
                     ELSE [Single(op, NumSlots, PrimarySlot, NoErr)
                              EXCEPT !.calls[i] = 1, !.errs[i] = Failure(op, i)]
    /\ UNCHANGED <<readers, dataSourceNames, db, conns, Pdbs, closed, stmts, stmt>>

\* Query, QueryContext, QueryRow, QueryRowContext: db.Replica().Query(...)
Query(op, ok) ==
    /\ Live
    /\ Reads < MaxReads
    /\ LET i == replica(count, NumSlots)
       IN  /\ count' = replicaCount(count, NumSlots)
           /\ Record(i)
           /\ cur' = IF i \in DOMAIN Pdbs
                     THEN Single(op, NumSlots, i, IF ok THEN NoErr ELSE Failure(op, i))
                     ELSE Panicked(op, NumSlots, i)
    /\ UNCHANGED <<readers, dataSourceNames, db, conns, Pdbs, closed, stmts, stmt>>

----------------------------------------------------------------------------
(* SetMaxIdleConns, SetMaxOpenConns, SetConnMaxLifetime: every slot in turn *)

SetOps == {"SetMaxIdleConns", "SetMaxOpenConns", "SetConnMaxLifetime"}

\* the values a caller hands to a setter
PoolValues == {0, 2}

\* what a slot holds of a setting no setter call has reached
Unset == -1

SetOrderReplicasOnly(n) == [k \in 1 .. (n - 1) |-> k]

\* for i := range db.Pdbs: the slots in the order the loop visits them
SetOrder(n) == [k \in 1 .. n |-> k - 1]

\* the loop calls the setter of each slot it visits with v; recv is what each
\* slot holds of the setting afterwards
SetPool(op, v) ==
    /\ Live
    /\ LET order == SetOrder(NumSlots)
           visits(i) == {k \in DOMAIN order : order[k] = i}
       IN  cur' = [op |-> op, running |-> FALSE,
                   calls |-> [i \in Slots(NumSlots) |-> Cardinality(visits(i))],
                   errs |-> [i \in Slots(NumSlots) |-> NoErr],
                   err |-> NoErr, idx |-> -1,
                   arg |-> v, order |-> order,
                   recv |-> [i \in Slots(NumSlots) |->
                                IF visits(i) # {} THEN v ELSE Unset]]
    /\ UNCHANGED <<readers, dataSourceNames, db, conns, Pdbs, count, closed, stmts, stmt, hits>>

----------------------------------------------------------------------------
(* Prepare, PrepareContext: prepare on every slot concurrently, all or nothing *)

\* the entry of stmts unit i assigns
PrepareEntryShared(i) == 0

\* stmts[i], err = db.Pdbs[i].Prepare(query): the entry unit i assigns
PrepareEntry(i) == i

PrepareResultIgnoringErr(err, ss) == Aggregate(ss)

\* what Prepare returns for the joined error err and the per-slot statements ss
PrepareResult(err, ss) == IF err # NoErr THEN NilAggregate ELSE Aggregate(ss)

\* the caller assigns Prepare's result to its statement variable, which holds
\* nothing while the call is in progress
PrepareCall(op) ==
    /\ Live
    /\ stmts' = [i \in Slots(NumSlots) |-> NilStmt]
    /\ stmt' = NilAggregate
    /\ cur' = Dispatched(op, NumSlots)
    /\ UNCHANGED <<readers, dataSourceNames, db, conns, Pdbs, count, closed, hits>>

PrepareUnit(i, ok) ==
    /\ cur.op \in PrepareOps
    /\ cur.running
    /\ i \in Pending
    /\ stmts' = [stmts EXCEPT ![PrepareEntry(i)] = IF ok THEN PerSlotStmt(i) ELSE NilStmt]
    /\ cur' = UnitDone(i, IF ok THEN NoErr ELSE Failure(cur.op, i))
    /\ UNCHANGED <<readers, dataSourceNames, db, conns, Pdbs, count, closed, stmt, hits>>

PrepareReturnRollingBack ==
    /\ cur.op \in PrepareOps
    /\ cur.running
    /\ Pending = {}
    /\ cur' = [cur EXCEPT !.running = FALSE, !.err = scatter(cur.errs)]
    /\ stmt' = PrepareResult(cur'.err, stmts)
    /\ stmts' = IF cur'.err # NoErr THEN [i \in DOMAIN stmts |-> NilStmt] ELSE stmts
    /\ UNCHANGED <<readers, dataSourceNames, db, conns, Pdbs, count, closed, hits>>

\* the join of Prepare: the per-slot statements are left as the units made them
PrepareReturn ==
    /\ cur.op \in PrepareOps
    /\ cur.running
    /\ Pending = {}
    /\ cur' = [cur EXCEPT !.running = FALSE, !.err = scatter(cur.errs)]
    /\ stmt' = PrepareResult(cur'.err, stmts)
    /\ UNCHANGED <<readers, dataSourceNames, db, conns, Pdbs, count, closed, stmts, hits>>

----------------------------------------------------------------------------
(* The aggregated statement: Exec on slot 0, Query on a replica, Close on all *)

HasStmt == Live /\ stmt.kind = "stmt"

\* len(s.stmts)
NumStmts == Cardinality(DOMAIN stmt.stmts)

\* the per-slot statement a mutating execution runs
StmtExecSlot == 0

\* the per-slot statement a row-returning execution runs when db.count is c
StmtQuerySlot(c) == replica(c, NumSlots)

\* Stmt.Exec, Stmt.ExecContext
StmtExec(op, ok) ==
    /\ HasStmt
    /\ cur' = Single(op, NumStmts, StmtExecSlot,
                     IF ok THEN NoErr ELSE Failure(op, StmtExecSlot))
    /\ UNCHANGED <<readers, dataSourceNames, db, conns, Pdbs, count, closed, stmts, stmt, hits>>

\* Stmt.Query, Stmt.QueryContext, Stmt.QueryRow, Stmt.QueryRowContext
StmtQuery(op, ok) ==
    /\ HasStmt
    /\ Reads < MaxReads
    /\ LET i == StmtQuerySlot(count)
       IN  /\ count' = replicaCount(count, NumSlots)
           /\ Record(i)
           /\ cur' = IF i \in DOMAIN stmt.stmts
                     THEN Single(op, NumStmts, i, IF ok THEN NoErr ELSE Failure(op, i))
                     ELSE Panicked(op, NumStmts, i)
    /\ UNCHANGED <<readers, dataSourceNames, db, conns, Pdbs, closed, stmts, stmt>>

StmtCloseFirstErr(errs) ==
    LET c == Causes(errs)
    IN  IF Len(c) = 0 THEN NoErr ELSE c[1]

\* what Stmt.Close returns for the per-slot outcomes errs
StmtCloseResult(errs) == scatter(errs)

StmtCloseCall ==
    /\ HasStmt
    /\ cur' = Dispatched("Stmt.Close", NumStmts)
    /\ UNCHANGED <<readers, dataSourceNames, db, conns, Pdbs, count, closed, stmts, stmt, hits>>

StmtCloseUnit(i, ok) ==
    /\ cur.op = "Stmt.Close"
    /\ cur.running
    /\ i \in Pending
    /\ stmt' = IF ok THEN [stmt EXCEPT !.stmts[i].closed = TRUE] ELSE stmt
    /\ cur' = UnitDone(i, IF ok THEN NoErr ELSE Failure("Stmt.Close", i))
    /\ UNCHANGED <<readers, dataSourceNames, db, conns, Pdbs, count, closed, stmts, hits>>

StmtCloseReturn ==
    /\ cur.op = "Stmt.Close"
    /\ cur.running
    /\ Pending = {}
    /\ cur' = [cur EXCEPT !.running = FALSE, !.err = StmtCloseResult(cur.errs)]
    /\ UNCHANGED <<readers, dataSourceNames, db, conns, Pdbs, count, closed, stmts, stmt, hits>>

----------------------------------------------------------------------------
Next ==
    \/ \E d \in DataSourceNames : OpenCall(d)
    \/ \E i \in DOMAIN Pdbs, ok \in BOOLEAN : OpenUnit(i, ok)
    \/ OpenReturn
    \/ CloseCall
    \/ \E i \in DOMAIN Pdbs, ok \in BOOLEAN : CloseUnit(i, ok)
    \/ \E op \in PingOps : PingCall(op)
    \/ \E i \in DOMAIN Pdbs, ok \in BOOLEAN : PingUnit(i, ok)
    \/ FanOutReturn
    \/ Driver
    \/ \E op \in WriteOps, ok \in BOOLEAN : Exec(op, ok)
    \/ \E op \in PrimaryOps : Primary(op)
    \/ \E op \in ReplicaOps : Replica(op)
    \/ \E op \in QueryOps, ok \in BOOLEAN : Query(op, ok)
    \/ \E op \in SetOps, v \in PoolValues : SetPool(op, v)
    \/ \E op \in PrepareOps : PrepareCall(op)
    \/ \E i \in DOMAIN Pdbs, ok \in BOOLEAN : PrepareUnit(i, ok)
    \/ PrepareReturn
    \/ \E op \in StmtExecOps, ok \in BOOLEAN : StmtExec(op, ok)
    \/ \E op \in StmtQueryOps, ok \in BOOLEAN : StmtQuery(op, ok)
    \/ StmtCloseCall
    \/ \E i \in DOMAIN Pdbs, ok \in BOOLEAN : StmtCloseUnit(i, ok)
    \/ StmtCloseReturn

Spec == Init /\ [][Next]_vars

\* a unit of the running fan-out makes its call on its slot
UnitStep ==
    \E i \in DOMAIN Pdbs, ok \in BOOLEAN :
        \/ OpenUnit(i, ok)
        \/ CloseUnit(i, ok)
        \/ PingUnit(i, ok)
        \/ PrepareUnit(i, ok)
        \/ StmtCloseUnit(i, ok)

\* the fan-out joins its units and returns to its caller
JoinStep == OpenReturn \/ FanOutReturn \/ PrepareReturn \/ StmtCloseReturn

\* every per-slot call terminates and every unit of execution that was started
\* is scheduled: a unit that can make its call makes it, and a fan-out whose
\* units are all done returns
FairSpec == Spec /\ WF_vars(UnitStep) /\ WF_vars(JoinStep)

----------------------------------------------------------------------------
(* Concurrent callers of replica on one opened logical database *)

\* Open(names) has returned a *DB, db.count has reached c, and every caller
\* has entered replica(len(db.Pdbs))
InitReaders ==
    \E names \in DataSourceNames, c \in 0 .. (Modulus - 1) :
        LET segs == Split(names)
            n == Len(segs)
        IN  /\ dataSourceNames = names
            /\ db = "ok"
            /\ conns = segs
            /\ Pdbs = [i \in Slots(n) |-> Handle(segs[i + 1])]
            /\ count = c
            /\ closed = {}
            /\ stmts = Empty
            /\ stmt = NilAggregate
            /\ hits = [i \in Slots(n) |-> 0]
            /\ readers = ReadersCalled(c)
            /\ cur = [op |-> "Open", running |-> FALSE,
                      calls |-> [i \in Slots(n) |-> 1],
                      errs |-> [i \in Slots(n) |-> NoErr],
                      err |-> NoErr, idx |-> -1]

\* if n <= 1 { return 0 }
ReaderPrimaryOnly(p) ==
    /\ readers.pc[p] = "called"
    /\ NumSlots <= 1
    /\ readers' = [readers EXCEPT !.pc[p] = "returned", !.idx[p] = 0]
    /\ Record(0)
    /\ UNCHANGED <<dataSourceNames, db, conns, Pdbs, count, closed, stmts, stmt, cur>>

ReaderLoadThenStore(p) ==
    /\ NumSlots > 1
    /\ \/ /\ readers.pc[p] = "called"
          /\ readers' = [readers EXCEPT !.pc[p] = "loaded", !.got[p] = count]
          /\ UNCHANGED count
       \/ /\ readers.pc[p] = "loaded"
          /\ count' = AddUint64(readers.got[p], 1)
          /\ readers' = [readers EXCEPT !.pc[p] = "added", !.got[p] = count']
    /\ UNCHANGED <<dataSourceNames, db, conns, Pdbs, closed, stmts, stmt, hits, cur>>

\* atomic.AddUint64(&db.count, 1): the counter is read, incremented and
\* written in one indivisible step, and the caller keeps the new value
ReaderAdd(p) ==
    /\ readers.pc[p] = "called"
    /\ NumSlots > 1
    /\ count' = AddUint64(count, 1)
    /\ readers' = [readers EXCEPT !.pc[p] = "added", !.got[p] = count']
    /\ UNCHANGED <<dataSourceNames, db, conns, Pdbs, closed, stmts, stmt, hits, cur>>

\* return int(1 + (<the new value> % uint64(n-1)))
ReaderReturn(p) ==
    /\ readers.pc[p] = "added"
    /\ LET i == 1 + (readers.got[p] % (NumSlots - 1))
       IN  /\ readers' = [readers EXCEPT !.pc[p] = "returned", !.idx[p] = i]
           /\ Record(i)
    /\ UNCHANGED <<dataSourceNames, db, conns, Pdbs, count, closed, stmts, stmt, cur>>

NextReaders ==
    \/ \E p \in Callers : ReaderPrimaryOnly(p)
    \/ \E p \in Callers : ReaderAdd(p)
    \/ \E p \in Callers : ReaderReturn(p)

SpecReaders == InitReaders /\ [][NextReaders]_vars

----------------------------------------------------------------------------
(* Properties, stated on what the test double observed *)

\* the operation recorded last is one of ops and has returned
Returned(ops) == cur.op \in ops /\ ~cur.running

\* exactly one underlying call was made, on slot i
OnlySlot(i) ==
    /\ i \in DOMAIN cur.calls
    /\ cur.calls[i] = 1
    /\ \A j \in DOMAIN cur.calls \ {i} : cur.calls[j] = 0

\* the slots whose call failed
Failed == {i \in DOMAIN cur.errs : cur.errs[i] # NoErr}

\* the positions of the separators of s, and its i-th segment (from 0)
SepPositions(s) == {k \in 1 .. Len(s) : s[k] = Sep}

NthSep(s, i) ==
    IF i = 0 THEN 0
    ELSE IF i > Cardinality(SepPositions(s)) THEN Len(s) + 1
    ELSE CHOOSE k \in SepPositions(s) :
            Cardinality({m \in SepPositions(s) : m <= k}) = i

Segment(s, i) == SubSeq(s, NthSep(s, i) + 1, NthSep(s, i + 1) - 1)

\* err is the aggregate of the per-slot outcomes errs: nil for no failure, the
\* failure itself for one, a compound of exactly the failures for more
Aggregates(errs, err) ==
    LET F == {i \in DOMAIN errs : errs[i] # NoErr}
    IN  /\ F = {} => err = NoErr
        /\ Cardinality(F) = 1 => \E i \in F : err = errs[i]
        /\ Cardinality(F) >= 2 =>
              /\ err.kind = "multi"
              /\ Len(err.causes) = Cardinality(F)
              /\ {err.causes[k] : k \in 1 .. Len(err.causes)} = {errs[i] : i \in F}

\* C1: every Exec, ExecContext, Begin and BeginTx issues exactly one underlying
\* call, and slot 0 observes it: no slot with index >= 1 observes an execute or
\* begin-transaction call, whatever the number of slots and the operations before.
C1_WritesOnPrimary ==
    cur.op \in WriteOps =>
        /\ DOMAIN cur.calls = DOMAIN Pdbs
        /\ OnlySlot(0)

C1_Witness ==
    /\ cur.op = "BeginTx"
    /\ NumSlots = 3
    /\ Reads = 2
    /\ stmt.kind = "stmt"

\* C2: with n >= 2 slots, every replica-read selection (Replica, Slave, Query,
\* QueryContext, QueryRow, QueryRowContext) picks an index in 1..n-1, never 0 and
\* never one outside the slot list, for every value of the counter.
C2_ReplicaReadsInRange ==
    (cur.op \in QueryOps \cup ReplicaOps /\ NumSlots >= 2) =>
        /\ cur.err # Panic
        /\ cur.idx \in 1 .. (NumSlots - 1)
        /\ cur.op \in QueryOps => OnlySlot(cur.idx)

C2_Witness ==
    /\ cur.op = "QueryRowContext"
    /\ NumSlots = 4
    /\ Reads = 4
    /\ count = 0

\* C3: on a freshly opened database with n >= 2 slots, after any number of
\* selections that does not overflow the counter, the numbers of times the
\* indices 1..n-1 were selected differ pairwise by at most 1.
C3_UniformCoverage ==
    (db = "ok" /\ NumSlots >= 2 /\ Reads < Modulus) =>
        \A i, j \in 1 .. (NumSlots - 1) : hits[i] - hits[j] <= 1

C3_Witness ==
    /\ NumSlots = 3
    /\ Reads = 3
    /\ hits[1] = 1
    /\ hits[2] = 2

\* C4: with exactly one slot, every replica-read selection returns index 0: the
\* reads are served by the primary and never go out of range.
C4_PrimaryOnlyReads ==
    (cur.op \in QueryOps \cup ReplicaOps /\ NumSlots = 1) =>
        /\ cur.err # Panic
        /\ cur.idx = 0
        /\ cur.op \in QueryOps => OnlySlot(0)

C4_Witness ==
    /\ cur.op = "QueryRow"
    /\ NumSlots = 1
    /\ Reads = 2
    /\ cur.err = NoErr

\* C5: Open is all-or-nothing: every target's open is attempted; if one fails,
\* Open returns an error and no database; if all succeed, it returns a database
\* whose slot i is the handle opened for the i-th semicolon-separated segment.
C5_OpenAllOrNothing ==
    /\ Returned({"Open"}) =>
          /\ DOMAIN cur.calls = Slots(Cardinality(SepPositions(dataSourceNames)) + 1)
          /\ \A i \in DOMAIN cur.calls : cur.calls[i] = 1
          /\ Failed # {} => (db = "failed" /\ cur.err # NoErr)
          /\ Failed = {} => (db = "ok" /\ cur.err = NoErr)
    /\ db = "ok" =>
          /\ DOMAIN Pdbs = Slots(Cardinality(SepPositions(dataSourceNames)) + 1)
          /\ \A i \in DOMAIN Pdbs : Pdbs[i] = Handle(Segment(dataSourceNames, i))

C5_Witness ==
    /\ Returned({"Open"})
    /\ NumSlots = 3
    /\ Failed = {1}
    /\ db = "failed"
    /\ cur.calls[0] = 1 /\ cur.calls[2] = 1
    /\ Pdbs[0] # NilDB /\ Pdbs[2] # NilDB

\* C6: Prepare and PrepareContext are all-or-nothing: if a slot fails to prepare,
\* the call returns an error and no aggregated statement; otherwise the statement
\* holds one per-slot statement per slot, statement i prepared on slot i.
C6_PrepareAllOrNothing ==
    Returned(PrepareOps) =>
        /\ Failed # {} => (cur.err # NoErr /\ stmt = NilAggregate)
        /\ Failed = {} =>
              /\ cur.err = NoErr
              /\ stmt.kind = "stmt"
              /\ DOMAIN stmt.stmts = DOMAIN Pdbs
              /\ \A i \in DOMAIN Pdbs : stmt.stmts[i] = PerSlotStmt(i)

C6_Witness ==
    /\ Returned({"PrepareContext"})
    /\ NumSlots = 3
    /\ stmt.kind = "stmt"

\* the statement's executions go where they should: a mutating execution to the
\* per-slot statement of slot 0 only, a row-returning one to that of a replica
StmtRouting ==
    /\ (cur.op \in StmtExecOps /\ NumSlots >= 2) => OnlySlot(0)
    /\ (cur.op \in StmtQueryOps /\ NumSlots >= 2) =>
          /\ cur.err # Panic
          /\ cur.idx \in 1 .. (NumSlots - 1)
          /\ OnlySlot(cur.idx)

\* a row-returning execution of the statement right after another one
StmtQueryAfterStmtQuery ==
    /\ NumSlots >= 2
    /\ cur.op \in StmtQueryOps
    /\ cur'.op \in StmtQueryOps
    /\ hits' # hits

\* the replica after replica i in the cycle 1..n-1
CyclicSucc(i) == IF i = NumSlots - 1 THEN 1 ELSE i + 1

\* C7 as stated: on a statement prepared on n >= 2 slots, mutating executions are
\* observed on slot 0 only, row-returning ones on slots 1..n-1 only, and repeated
\* row-returning executions cycle over 1..n-1 in round-robin.
C7_Original ==
    /\ []StmtRouting
    /\ [][StmtQueryAfterStmtQuery => cur'.idx = CyclicSucc(cur.idx)]_vars

\* C7 as amended: on a statement prepared on n >= 2 slots, mutating executions
\* are observed on slot 0 only, row-returning ones on slots 1..n-1 only, and each
\* row-returning execution that follows another goes to the cyclic successor of
\* its slot, except the one on which the selection counter wraps around to 0.
C7_StmtRoutingRoundRobin ==
    /\ []StmtRouting
    /\ [][(StmtQueryAfterStmtQuery /\ count' # 0) => cur'.idx = CyclicSucc(cur.idx)]_vars

C7_Witness ==
    /\ cur.op = "Stmt.QueryRow"
    /\ NumSlots = 3
    /\ Reads = 3
    /\ cur.idx = 2
    /\ hits[1] = 1

\* C8: a fan-out (Ping, PingContext, Close, Open, Prepare, PrepareContext) whose
\* slots F fail reports success if F is empty, that slot's failure itself if F has
\* one element, and one compound failure whose causes are exactly the failures of
\* the slots of F if F has two or more.
C8_FanOutAggregates ==
    Returned(PingOps \cup PrepareOps \cup {"Close", "Open"}) =>
        /\ \A i \in Failed : cur.errs[i] = Failure(cur.op, i)
        /\ Aggregates(cur.errs, cur.err)

C8_Witness ==
    /\ Returned({"Ping"})
    /\ NumSlots = 3
    /\ Failed = {0, 2}

\* C9: closing an aggregated statement attempts the close of every per-slot
\* statement, reports the aggregate of the failures of all the slots whose close
\* failed, and reports success only if every close succeeded.
C9_StmtCloseAggregates ==
    Returned({"Stmt.Close"}) =>
        /\ DOMAIN cur.calls = DOMAIN stmt.stmts
        /\ \A i \in DOMAIN stmt.stmts : cur.calls[i] = 1
        /\ \A i \in Failed : cur.errs[i] = Failure("Stmt.Close", i)
        /\ Aggregates(cur.errs, cur.err)
        /\ cur.err = NoErr <=> Failed = {}

C9_Witness ==
    /\ Returned({"Stmt.Close"})
    /\ NumSlots = 3
    /\ Failed = {2}
    /\ cur.err = Failure("Stmt.Close", 2)
    /\ cur.calls[0] = 1 /\ cur.calls[1] = 1 /\ cur.calls[2] = 1
    /\ stmt.stmts[0].closed /\ stmt.stmts[1].closed /\ ~stmt.stmts[2].closed

\* a call of Replica or Slave
ReplicaStep == cur'.op \in ReplicaOps /\ hits' # hits

\* C10 as stated: Replica and Slave are pure accessors: a call leaves the state of
\* the logical database, the selection counter included, unchanged.
C10_Original == [][ReplicaStep => UNCHANGED <<Pdbs, count>>]_vars

\* C10 as amended: Replica and Slave make no underlying call and leave the slot
\* list unchanged, but with n >= 2 slots they advance the selection counter by
\* one; only with n = 1 is the counter left unchanged.
C10_ReplicaAdvancesCounter ==
    [][ReplicaStep =>
        /\ UNCHANGED <<dataSourceNames, db, conns, Pdbs, closed, stmts, stmt>>
        /\ count' = IF NumSlots >= 2 THEN (count + 1) % Modulus ELSE count
        /\ \A i \in DOMAIN cur'.calls : cur'.calls[i] = 0
        /\ cur'.err = NoErr]_vars

C10_Witness ==
    /\ cur.op = "Slave"
    /\ NumSlots = 3
    /\ count = 2
    /\ cur.idx = 1

\* the number of underlying calls the operation made
RECURSIVE CallsUpTo(_)
CallsUpTo(n) == IF n = 0 THEN 0 ELSE cur.calls[n - 1] + CallsUpTo(n - 1)

TotalCalls == CallsUpTo(Cardinality(DOMAIN cur.calls))

\* a read through the logical database is taking place
QueryStep == cur'.op \in QueryOps /\ hits' # hits

\* C11: no retry and no fallback: Exec, Begin, Query, QueryRow and their context
\* variants make exactly one underlying call, on one slot, and return its outcome
\* unchanged; a failed read is not re-issued, and the slot a read goes to depends
\* on the counter alone, so a replica that failed is selected again on its turn.
C11_NoRetryNoFallback ==
    /\ [](cur.op \in WriteOps \cup QueryOps =>
            /\ TotalCalls = 1
            /\ OnlySlot(cur.idx)
            /\ cur.err = cur.errs[cur.idx]
            /\ cur.err \in {NoErr, Failure(cur.op, cur.idx)}
            /\ \A j \in DOMAIN cur.errs \ {cur.idx} : cur.errs[j] = NoErr)
    /\ [][QueryStep =>
            cur'.idx = IF NumSlots <= 1 THEN 0
                       ELSE 1 + (((count + 1) % Modulus) % (NumSlots - 1))]_vars

C11_Witness ==
    /\ cur.op = "Query"
    /\ NumSlots = 3
    /\ Reads = 3
    /\ cur.idx = 2
    /\ cur.err = Failure("Query", 2)
    /\ cur.calls[0] = 0 /\ cur.calls[1] = 0

\* C12: SetMaxIdleConns, SetMaxOpenConns and SetConnMaxLifetime call the setter
\* of every slot exactly once, in slot order 0..n-1, with the value given, so that
\* all n slots hold the new setting when the call returns.
C12_PoolTuningReachesEverySlot ==
    cur.op \in SetOps =>
        /\ ~cur.running
        /\ Len(cur.order) = NumSlots
        /\ \A k \in 1 .. NumSlots : cur.order[k] = k - 1
        /\ DOMAIN cur.calls = DOMAIN Pdbs
        /\ \A i \in DOMAIN Pdbs : cur.calls[i] = 1 /\ cur.recv[i] = cur.arg

C12_Witness ==
    /\ cur.op = "SetConnMaxLifetime"
    /\ NumSlots = 3
    /\ cur.arg = 2
    /\ cur.recv[0] = 2 /\ cur.recv[1] = 2 /\ cur.recv[2] = 2

\* the callers whose increment has been applied
Added == {p \in Callers : readers.pc[p] \in {"added", "returned"}}

\* the orders in which the callers of P can have been served
Orders(P) ==
    {t \in [P -> 1 .. Cardinality(P)] : \A p, q \in P : p # q => t[p] # t[q]}

\* how many of k sequential selections starting from counter value c fall on
\* slot i of n
SequentialHits(c, k, n, i) ==
    Cardinality({j \in 1 .. k : 1 + (((c + j) % Modulus) % (n - 1)) = i})

\* C13: under any interleaving of k concurrent selections on n >= 2 slots no
\* increment is lost: the counter stands exactly as many steps above its start
\* as increments were applied (k at the end, modulo 2^w), the callers observe
\* pairwise distinct consecutive counter values, and the indices handed out are,
\* as a multiset, those of k sequential selections from the same start.
C13_NoLostIncrement ==
    NumSlots >= 2 =>
        /\ count = (readers.start + Cardinality(Added)) % Modulus
        /\ \E t \in Orders(Added) :
               \A p \in Added : readers.got[p] = (readers.start + t[p]) % Modulus
        /\ \A p \in Callers :
               readers.pc[p] = "returned" =>
                   readers.idx[p] = 1 + (readers.got[p] % (NumSlots - 1))
        /\ (\A p \in Callers : readers.pc[p] = "returned") =>
               /\ count = (readers.start + NumCallers) % Modulus
               /\ \A i \in DOMAIN hits :
                      hits[i] = SequentialHits(readers.start, NumCallers, NumSlots, i)

C13_Witness ==
    /\ NumSlots = 3
    /\ readers.start = 3
    /\ \A p \in Callers : readers.pc[p] = "returned"
    /\ readers.got[1] = 2 /\ readers.got[2] = 0 /\ readers.got[3] = 1
    /\ count = 2
    /\ hits[1] = 2 /\ hits[2] = 1

\* the fan-out calls of the logical database
FanOutOps == {"Open", "Close"} \cup PingOps \cup PrepareOps

\* every unit of the fan-out has made exactly one call on its own slot
AllAttempted ==
    /\ DOMAIN cur.calls = DOMAIN Pdbs
    /\ \A i \in DOMAIN Pdbs : cur.calls[i] = 1

\* C14: a fan-out call (Open, Close, Ping, PingContext, Prepare, PrepareContext)
\* over n slots makes the per-slot call exactly once on every index 0..n-1, whether
\* or not other slots fail and in any order, returns only when all n calls are
\* done, and, the per-slot calls terminating, eventually returns.
C14_FanOutAttemptsAllAndReturns ==
    /\ [](cur.op \in FanOutOps =>
            /\ \A i \in DOMAIN cur.calls : cur.calls[i] <= 1
            /\ ~cur.running => AllAttempted)
    /\ [][(cur.op \in FanOutOps /\ cur.running /\ ~cur'.running) => AllAttempted]_vars
    /\ ((cur.op \in FanOutOps /\ cur.running) ~> (cur.op \in FanOutOps /\ ~cur.running))

C14_Witness ==
    /\ Returned({"PingContext"})
    /\ NumSlots = 3
    /\ Failed = {0}
    /\ cur.calls[1] = 1 /\ cur.calls[2] = 1

\* a replica-read request through the logical database
ReadStep == cur'.op \in ReplicaOps \cup QueryOps /\ hits' # hits

WrapStep ==
    /\ ReadStep
    /\ cur.op \in ReplicaOps \cup QueryOps
    /\ NumSlots >= 2
    /\ count = Modulus - 1
    /\ count' = 0

\* the replicas have been selected equally often, up to one selection
Balanced == \A i, j \in 1 .. (NumSlots - 1) : hits[i] - hits[j] <= 1

\* C16 as stated: for every n >= 2 the selection made right after the counter
\* overflows from its maximum value to 0 is the cyclic successor, within 1..n-1,
\* of the selection made right before, so the round-robin cycle survives the wrap.
C16_Original == [][WrapStep => cur'.idx = CyclicSucc(cur.idx)]_vars

\* C16 as amended: the selection on which the counter wraps from 2^w - 1 to 0 is
\* index 1; it is the cyclic successor of the selection before it, and the counts
\* of the replicas keep differing by at most 1, exactly when n - 1 divides 2^w;
\* when n - 1 does not divide 2^w the selection before the wrap is not n - 1 and
\* the cycle restarts at index 1 out of turn.
C16_WrapRestartsCycle ==
    /\ [][WrapStep =>
            /\ cur'.idx = 1
            /\ (Modulus % (NumSlots - 1) = 0) <=> (cur'.idx = CyclicSucc(cur.idx))]_vars
    /\ []((db = "ok" /\ NumSlots >= 2 /\ Modulus % (NumSlots - 1) = 0) => Balanced)

C16_Witness ==
    /\ cur.op = "QueryRow"
    /\ NumSlots = 4
    /\ count = 0
    /\ Reads = 4
    /\ cur.idx = 1
    /\ hits[1] = 2

\* C17: once Open has returned a logical database, no operation, Close and failed
\* fan-outs included, changes the length, the order or the identity of the entries
\* of the slot list: slot i stays the handle opened for the i-th segment, slot 0
\* the primary, and the list has at least one entry.
C17_SlotListFixed ==
    /\ [][db = "ok" => (db' = "ok" /\ Pdbs' = Pdbs)]_vars
    /\ [](db = "ok" =>
            /\ NumSlots >= 1
            /\ DOMAIN Pdbs = Slots(NumSlots)
            /\ \A i \in DOMAIN Pdbs : Pdbs[i] = Handle(Segment(dataSourceNames, i)))

C17_Witness ==
    /\ Returned({"Close"})
    /\ NumSlots = 3
    /\ Failed = {1}
    /\ closed = {0, 2}
    /\ Pdbs[0] = Handle(<<"a">>)
    /\ Pdbs[2] = Handle(<<>>)

\* the operations of the logical database that are not replica reads
NonReadOps ==
    WriteOps \cup PingOps \cup {"Close"} \cup PrepareOps \cup PrimaryOps
        \cup {"Driver"} \cup SetOps

\* C18: Exec, ExecContext, Begin, BeginTx, Ping, PingContext, Close, Prepare,
\* PrepareContext, Primary, Master, Driver and the three pool setters leave the
\* selection counter unchanged at every step, so the replica a read is routed to
\* depends only on the counter the previous read left, whatever came in between.
C18_NonReadsKeepCounter ==
    [][/\ (cur' # cur /\ cur'.op \in NonReadOps) => count' = count
       /\ (ReadStep /\ cur.op \in NonReadOps) =>
              cur'.idx = IF NumSlots <= 1 THEN 0
                         ELSE 1 + (((count + 1) % Modulus) % (NumSlots - 1))]_vars

C18_Witness ==
    /\ cur.op = "ExecContext"
    /\ cur.err = Failure("ExecContext", 0)
    /\ NumSlots = 3
    /\ Reads = 2
    /\ count = 2

\* C19: a failed fan-out rolls nothing back: when Close fails, the slots whose
\* close succeeded stay closed; when Prepare or PrepareContext fails, the slots that
\* prepared keep their statement; and the call reports failure.
C19_NoRollback ==
    /\ (Returned({"Close"}) /\ Failed # {}) =>
          /\ cur.err # NoErr
          /\ \A i \in DOMAIN Pdbs \ Failed : i \in closed
    /\ (Returned(PrepareOps) /\ Failed # {}) =>
          /\ cur.err # NoErr
          /\ stmt = NilAggregate
          /\ \A i \in DOMAIN Pdbs \ Failed : stmts[i] = PerSlotStmt(i)

C19_Witness ==
    /\ Returned({"Prepare"})
    /\ NumSlots = 3
    /\ Failed = {1}
    /\ cur.err = Failure("Prepare", 1)
    /\ stmts[0] = PerSlotStmt(0)
    /\ stmts[2] = PerSlotStmt(2)

\* unit i of the running fan-out makes its call in this step
UnitRuns(i) == cur.running /\ cur'.running /\ cur'.calls[i] # cur.calls[i]

\* C20: in the fan-out of Open, Prepare and PrepareContext, unit i writes entry i
\* of the shared collection (the slot list, the per-slot statement list) and no
\* other entry, each unit writes once, and the caller reads the collection only
\* when every unit is done, finding in each entry what that entry's unit wrote.
C20_UnitsWriteOwnEntry ==
    /\ [][\A i \in DOMAIN cur.calls :
            /\ (cur.op = "Open" /\ UnitRuns(i)) =>
                  /\ cur.calls[i] = 0
                  /\ stmts' = stmts
                  /\ \A j \in DOMAIN Pdbs \ {i} : Pdbs'[j] = Pdbs[j]
                  /\ Pdbs'[i] = IF cur'.errs[i] = NoErr
                                THEN Handle(Segment(dataSourceNames, i)) ELSE NilDB
            /\ (cur.op \in PrepareOps /\ UnitRuns(i)) =>
                  /\ cur.calls[i] = 0
                  /\ Pdbs' = Pdbs
                  /\ \A j \in DOMAIN stmts \ {i} : stmts'[j] = stmts[j]
                  /\ stmts'[i] = IF cur'.errs[i] = NoErr THEN PerSlotStmt(i) ELSE NilStmt]_vars
    /\ [][(cur.op \in {"Open"} \cup PrepareOps /\ cur.running /\ ~cur'.running) =>
            /\ \A i \in DOMAIN cur.calls : cur.calls[i] = 1
            /\ Pdbs' = Pdbs
            /\ stmts' = stmts
            /\ (cur.op = "Open" /\ db' = "ok") =>
                  \A i \in DOMAIN Pdbs : Pdbs[i] = Handle(Segment(dataSourceNames, i))
            /\ (cur.op \in PrepareOps /\ stmt' # NilAggregate) =>
                  /\ stmt'.stmts = stmts
                  /\ \A i \in DOMAIN Pdbs : stmts[i] = PerSlotStmt(i)]_vars

C20_Witness ==
    /\ cur.op = "PrepareContext"
    /\ cur.running
    /\ NumSlots = 3
    /\ cur.calls[0] = 1 /\ cur.calls[1] = 0 /\ cur.calls[2] = 1
    /\ stmts[0] = NilStmt
    /\ stmts[1] = NilStmt
    /\ stmts[2] = PerSlotStmt(2)

====
